---- MODULE Spec2Model ----
(***************************************************************************)
(* Samousse-rs: the Twitch EventSub websocket client                       *)
(* (src/src/twitch/websocket.rs), the shared DiscordTwitchWatcher store    *)
(* (src/src/discord.rs), the consumer of the mpsc channel that renames and *)
(* restores voice channels (src/src/discord/twitch.rs) and the gateway     *)
(* event handler (src/src/discord/bot.rs).                                 *)
(*                                                                         *)
(* Seven specifications share the variables:                               *)
(*   Spec      the consumer task and the gateway's VoiceStateUpdate        *)
(*             handler, with the websocket client abstracted to Notify;    *)
(*   SpecCoOcc the consumer task alone on a queue of four messages, from   *)
(*             the states in which two users share a voice channel;        *)
(*   SpecFeed  the websocket client, Twitch and the channel, with the      *)
(*             consumer abstracted to the messages it takes.               *)
(*   SpecStartup  the token request, the gateway's Ready handler and the   *)
(*             consumer task it spawns, from process start;                *)
(*   SpecBoth  the websocket client and the consumer task together, from   *)
(*             a streaming connection;                                     *)
(*   SpecLock  the consumer task and the gateway's VoiceStateUpdate        *)
(*             handler, with the RwLock of the store taken one             *)
(*             acquisition at a time;                                      *)
(*   SpecProducers  SpecBoth with the slash command that also sends on     *)
(*             the channel.                                                *)
(***************************************************************************)
EXTENDS Integers, Sequences, FiniteSets, TLC

\* Option<T>: None is the empty tuple, Some(x) the tuple of x
None == << >>

Some(x) == << x >>

Option(S) == {None} \cup { Some(x) : x \in S }

\* Option::unwrap on a Some
unwrap(o) == o[1]

(***************************************************************************)
(* Bounds of the model.                                                    *)
(***************************************************************************)
\* capacity of the mpsc channel in the model (main creates it with 32)
MaxQueue == 1

\* websocket connections the client opens in one behaviour
MaxConns == 2

\* Ready events the gateway delivers in one behaviour
MaxReady == 2

\* VoiceStateUpdate events the gateway delivers in one behaviour of SpecLock
MaxVoiceEvents == 2

(***************************************************************************)
(* Configuration (config.twitch_watcher).                                  *)
(***************************************************************************)
\* config.twitch_watcher.channels: pairs (discord_id, twitch_channel_id)
TwitchUsers ==
    { [discord_id |-> 1, twitch_channel_id |-> 3],
      [discord_id |-> 2, twitch_channel_id |-> 4] }

DiscordIds == { m.discord_id : m \in TwitchUsers }

\* a Discord account that is not in the configuration
UnmonitoredDiscordId == 5

\* broadcaster ids a notification may carry: the configured ones, and one that
\* is configured for nobody (and happens to be the Discord id of a user)
BroadcasterIds == { m.twitch_channel_id : m \in TwitchUsers } \cup {1}

\* voice channels of the configured guild
ChannelIds == {10, 20}

\* config.twitch_watcher.renamed_channel_name
renamed_channel_name == "live"

\* names a voice channel may carry on Discord
ChannelNames == {"general", renamed_channel_name}

MessageTypes == {"TwitchStreamOnline", "TwitchStreamOffline"}

VARIABLES
    users,          \* DiscordTwitchWatcher.users : HashMap<UserId, User>
    channels,       \* DiscordTwitchWatcher.channels : HashMap<ChannelId, Channel>
    voice_states,   \* ctx.cache.guild(..).voice_states, per monitored user
    names,          \* name of each channel on Discord (ctx.cache.channel(..).name)
    cached,         \* channels present in ctx.cache
    queue,          \* the mpsc channel of InterComm messages
    pc,             \* position of the consumer task (twitch_event_handler)
    cur,            \* locals of the handle_stream_event call in progress
    edits,          \* history: the ctx.http.edit_channel requests made since the
                    \* last receiver.recv()
    scenario,       \* history: the users, channel and channel name SpecCoOcc
                    \* started from (None under the other specifications)
    fpc,            \* position of WebsocketClient::run
    conn,           \* the websocket stream `s` of run, and what Twitch has done on it
    connect_url,    \* WebsocketClient.connect_url
    session_id,     \* WebsocketClient.session_id
    event_sub_id,   \* WebsocketClient.event_sub_id : Vec<Subscription>
    remote,         \* the EventSub subscriptions Twitch holds for the token
    next_id,        \* the id Twitch gives the next subscription it creates
    pending,        \* the InterComm a blocked sender.send() holds
    calls,          \* history: the Helix calls of the last process_welcome_message
    frame,          \* history: the last item the websocket stream yielded
    delay,          \* history: the seconds run slept since it last read the stream
    receiver,       \* Data.receiver : Mutex<Option<Receiver<InterComm>>>
    consumers,      \* history: the tasks that have run twitch_event_handler
    readys,         \* history: the Ready events the gateway has delivered
    guards,         \* the read guards of the RwLock the consumer task holds
    gw,             \* the VoiceStateUpdate the gateway handler is handling or
                    \* handled last, whether it waits for the write lock, and
                    \* the number of events delivered so far
    scanned         \* history: the outcome of the guild scan made for each user
                    \* since the last VoiceStateUpdate handled for that user

\* the variables of the RwLock seen one acquisition at a time (SpecLock; the
\* other specifications take each locked block as one step and leave them)
lockVars == << guards, gw, scanned >>

\* the variables of the start of the service
startVars == << receiver, consumers, readys >>

\* the variables of the websocket client
feedVars == << fpc, conn, connect_url, session_id, event_sub_id, remote, next_id,
               pending, calls, frame, delay >>

\* the variables of the consumer and of the gateway handler, but the channel
\* and the consumer's position
discordVars == << users, channels, voice_states, names, cached, cur, edits, scenario >>

vars == << users, channels, voice_states, names, cached, queue, pc, cur, edits,
           scenario, fpc, conn, connect_url, session_id, event_sub_id, remote,
           next_id, pending, calls, frame, delay,
           receiver, consumers, readys, guards, gw, scanned >>

\* the DiscordTwitchWatcher behind the RwLock
storeVars == << users, channels >>

(***************************************************************************)
(* DiscordTwitchWatcher                                                    *)
(***************************************************************************)
\* the User built in the framework's setup closure
NewUser(m) ==
    [ discord_id |-> m.discord_id,
      twitch_id |-> m.twitch_channel_id,
      current_channel_id |-> None,
      twitch_is_streaming |-> None,
      has_been_part_of_voice_state_event |-> FALSE ]

InitUsers ==
    [ d \in DiscordIds |-> NewUser(CHOOSE m \in TwitchUsers : m.discord_id = d) ]

\* a lookup that compares the wrong id field
find_user_by_discord_field(us, twitch_id) ==
    LET m == { d \in DOMAIN us : us[d].discord_id = twitch_id }
    IN  IF m = {} THEN None ELSE Some(CHOOSE d \in m : TRUE)

\* DiscordTwitchWatcher::find_user_by_twitch_id_mut: the key of the user found
find_user_by_twitch_id_mut(us, twitch_id) ==
    LET m == { d \in DOMAIN us : us[d].twitch_id = twitch_id }
    IN  IF m = {} THEN None ELSE Some(CHOOSE d \in m : TRUE)

\* DiscordTwitchWatcher::find_user_in_channel: the users whose known channel
\* is channel_id
find_user_in_channel(us, channel_id) ==
    { d \in DOMAIN us : us[d].current_channel_id = Some(channel_id) }

(***************************************************************************)
(* The consumer task: twitch_event_handler and what it calls.  One action  *)
(* per acquisition of the RwLock, so that the gateway's handler can run    *)
(* between any two of them.                                                *)
(***************************************************************************)
NoCall ==
    [ user |-> None, is_streaming |-> FALSE, channel_id |-> None, name |-> None ]

\* a handler that takes each MessageType for the other
is_streaming_inverted(item) == item.message_type # "TwitchStreamOnline"

\* twitch_event_handler: the bool each MessageType is handled with
is_streaming_of(item) == item.message_type = "TwitchStreamOnline"

\* a check-and-set that never reports "unchanged"
SetLiveUnchecked(us, d, is_streaming) ==
    [ changed |-> TRUE,
      users |-> [us EXCEPT ![d].twitch_is_streaming = Some(is_streaming)] ]

\* a check-and-set that reports the change and does not write the flag
SetLiveNotWriting(us, d, is_streaming) ==
    [ changed |-> us[d].twitch_is_streaming # Some(is_streaming), users |-> us ]

\* handle_stream_event, the Some(u) arm under the write lock: compare the
\* flag with the incoming status and write it when it differs
SetLive(us, d, is_streaming) ==
    IF us[d].twitch_is_streaming # Some(is_streaming)
    THEN [ changed |-> TRUE,
           users |-> [us EXCEPT ![d].twitch_is_streaming = Some(is_streaming)] ]
    ELSE [ changed |-> FALSE, users |-> us ]

\* receiver.recv() and the first block of handle_stream_event
Recv ==
    /\ pc = "recv"
    /\ queue # << >>
    /\ LET item == Head(queue)
           is_streaming == is_streaming_of(item)
           u == find_user_by_twitch_id_mut(users, item.streamer_user_id)
       IN  /\ queue' = Tail(queue)
           /\ edits' = << >>
           /\ IF u = None
              THEN \* warn!, then Err("Unknown twitch user id"), logged by the caller
                   /\ UNCHANGED << users, cur, pc >>
              ELSE LET r == SetLive(users, unwrap(u), is_streaming)
                   IN  /\ users' = r.users
                       /\ IF r.changed
                          THEN /\ pc' = "find"
                               /\ cur' = [NoCall EXCEPT !.user = u,
                                                        !.is_streaming = is_streaming]
                          ELSE \* "status hasn't changed": return Ok(())
                               UNCHANGED << cur, pc >>
    /\ UNCHANGED << channels, voice_states, names, cached, scenario >>
    /\ UNCHANGED feedVars
    /\ UNCHANGED startVars
    /\ UNCHANGED lockVars

\* a discovery that scans the guilds whatever the store knows
FindAlwaysScanning ==
    /\ pc = "find"
    /\ cur' = [cur EXCEPT !.channel_id = voice_states[users[unwrap(cur.user)].discord_id]]
    /\ pc' = "memo"
    /\ UNCHANGED << users, channels, voice_states, names, cached, queue, edits, scenario >>
    /\ UNCHANGED feedVars
    /\ UNCHANGED startVars
    /\ UNCHANGED lockVars

\* find_current_user_voice_channel, the block under the read lock
Find ==
    /\ pc = "find"
    /\ LET user == users[unwrap(cur.user)]
           ret == IF user.has_been_part_of_voice_state_event
                  THEN user.current_channel_id
                  ELSE voice_states[user.discord_id]
       IN  cur' = [cur EXCEPT !.channel_id = ret]
    /\ pc' = "memo"
    /\ UNCHANGED << users, channels, voice_states, names, cached, queue, edits, scenario >>
    /\ UNCHANGED feedVars
    /\ UNCHANGED startVars
    /\ UNCHANGED lockVars

\* a write of the discovered channel that does not set the flag
MemoWithoutFlag ==
    /\ pc = "memo"
    /\ IF cur.channel_id # None
       THEN /\ users' = [users EXCEPT
                            ![unwrap(cur.user)].current_channel_id = cur.channel_id]
            /\ pc' = "decide"
            /\ UNCHANGED cur
       ELSE /\ pc' = "recv"
            /\ cur' = NoCall
            /\ UNCHANGED users
    /\ UNCHANGED << channels, voice_states, names, cached, queue, edits, scenario >>
    /\ UNCHANGED feedVars
    /\ UNCHANGED startVars
    /\ UNCHANGED lockVars

\* find_current_user_voice_channel, the block under the write lock, and the
\* caller's branch on its result
Memo ==
    /\ pc = "memo"
    /\ IF cur.channel_id # None
       THEN /\ users' = [users EXCEPT
                            ![unwrap(cur.user)].has_been_part_of_voice_state_event = TRUE,
                            ![unwrap(cur.user)].current_channel_id = cur.channel_id]
            /\ pc' = "decide"
            /\ UNCHANGED cur
       ELSE \* "not found in channel"
            /\ pc' = "recv"
            /\ cur' = NoCall
            /\ UNCHANGED users
    /\ UNCHANGED << channels, voice_states, names, cached, queue, edits, scenario >>
    /\ UNCHANGED feedVars
    /\ UNCHANGED startVars
    /\ UNCHANGED lockVars

\* a guard that forgets the other streamers of the channel
SkipEditIgnoringOthers(us, channel_id, renamed, is_streaming) ==
    is_streaming /\ renamed

\* guards without the "already renamed" return
SkipEditWithoutRenamedCheck(us, channel_id, renamed, is_streaming) ==
    Cardinality({ f \in find_user_in_channel(us, channel_id) :
                    us[f].twitch_is_streaming = Some(TRUE) /\ renamed }) >= 1

\* get_channel_new_name: the guards that return Ok(None)
SkipEdit(us, channel_id, renamed, is_streaming) ==
    \/ Cardinality({ f \in find_user_in_channel(us, channel_id) :
                       us[f].twitch_is_streaming = Some(TRUE) /\ renamed }) >= 1
    \/ is_streaming /\ renamed

\* HashMap::insert
MapInsert(m, k, v) == [ x \in DOMAIN m \cup {k} |-> IF x = k THEN v ELSE m[x] ]

\* HashMap::remove
MapRemove(m, k) == [ x \in DOMAIN m \ {k} |-> m[x] ]

\* a decision whose record holds the name the rename gives, not the name the
\* channel had
get_channel_new_name_recording_new_name(us, chs, cache, nms, channel_id, is_streaming) ==
    LET channel_has_been_renamed == channel_id \in DOMAIN chs
    IN  IF SkipEdit(us, channel_id, channel_has_been_renamed, is_streaming)
        THEN [ kind |-> "none", channels |-> chs, name |-> None ]
        ELSE IF channel_id \notin cache
        THEN [ kind |-> "err", channels |-> chs, name |-> None ]
        ELSE IF is_streaming
        THEN [ kind |-> "edit",
               channels |-> MapInsert(chs, channel_id,
                                      [original_name |-> renamed_channel_name]),
               name |-> Some(renamed_channel_name) ]
        ELSE IF channel_id \in DOMAIN chs
        THEN [ kind |-> "edit",
               channels |-> MapRemove(chs, channel_id),
               name |-> Some(chs[channel_id].original_name) ]
        ELSE [ kind |-> "panic", channels |-> chs, name |-> None ]

\* get_channel_new_name: what it returns ("none" for Ok(None), "err" for
\* Err("Channel doesn't exist"), "edit" for Ok(Some(..)), "panic" for the
\* unwrap of a missing record), the map it leaves and the name of the edit
get_channel_new_name(us, chs, cache, nms, channel_id, is_streaming) ==
    LET channel_has_been_renamed == channel_id \in DOMAIN chs
    IN  IF SkipEdit(us, channel_id, channel_has_been_renamed, is_streaming)
        THEN [ kind |-> "none", channels |-> chs, name |-> None ]
        ELSE IF channel_id \notin cache
        THEN [ kind |-> "err", channels |-> chs, name |-> None ]
        ELSE IF is_streaming
        THEN [ kind |-> "edit",
               channels |-> MapInsert(chs, channel_id,
                                      [original_name |-> nms[channel_id]]),
               name |-> Some(renamed_channel_name) ]
        ELSE IF channel_id \in DOMAIN chs
        THEN [ kind |-> "edit",
               channels |-> MapRemove(chs, channel_id),
               name |-> Some(chs[channel_id].original_name) ]
        ELSE [ kind |-> "panic", channels |-> chs, name |-> None ]

\* rename_channel calling get_channel_new_name.  Its blocks (the read of
\* channel_has_been_renamed, the guards, the cache lookup, the write) are one
\* step: of the state they read, another task writes only `users` and the
\* cache, `users` is read by the guards alone and the cache by the lookup
\* alone, so every interleaving with the gateway task equals one in which the
\* gateway's step comes before or after the four blocks.
Decide ==
    /\ pc = "decide"
    /\ LET r == get_channel_new_name(users, channels, cached, names,
                                     unwrap(cur.channel_id), cur.is_streaming)
       IN  /\ channels' = r.channels
           /\ IF r.kind = "edit"
              THEN /\ cur' = [cur EXCEPT !.name = r.name]
                   /\ pc' = "edit"
              ELSE IF r.kind = "panic"
              THEN \* the spawned task unwinds; its Receiver is dropped
                   /\ pc' = "panicked"
                   /\ UNCHANGED cur
              ELSE \* Ok(None), or the Err logged by twitch_event_handler
                   /\ pc' = "recv"
                   /\ cur' = NoCall
    /\ UNCHANGED << users, voice_states, names, cached, queue, edits, scenario >>
    /\ UNCHANGED feedVars
    /\ UNCHANGED startVars
    /\ UNCHANGED lockVars

\* a rename_channel that undoes the bookkeeping when Discord refuses the edit
EditRollingBack ==
    /\ pc = "edit"
    /\ edits' = Append(edits, [ channel |-> unwrap(cur.channel_id),
                                name |-> unwrap(cur.name),
                                user |-> unwrap(cur.user),
                                is_streaming |-> cur.is_streaming ])
    /\ \E ok \in BOOLEAN :
          /\ names' = IF ok THEN [names EXCEPT ![unwrap(cur.channel_id)] = unwrap(cur.name)]
                            ELSE names
          /\ channels' = IF ok THEN channels
                         ELSE IF cur.is_streaming
                         THEN MapRemove(channels, unwrap(cur.channel_id))
                         ELSE MapInsert(channels, unwrap(cur.channel_id),
                                        [ original_name |-> unwrap(cur.name) ])
    /\ pc' = "recv"
    /\ cur' = NoCall
    /\ UNCHANGED << users, voice_states, cached, queue, scenario >>
    /\ UNCHANGED feedVars
    /\ UNCHANGED startVars
    /\ UNCHANGED lockVars

\* rename_channel: ctx.http.edit_channel, which Discord accepts or refuses
Edit ==
    /\ pc = "edit"
    /\ edits' = Append(edits, [ channel |-> unwrap(cur.channel_id),
                                name |-> unwrap(cur.name),
                                user |-> unwrap(cur.user),
                                is_streaming |-> cur.is_streaming ])
    /\ \E ok \in BOOLEAN :
          names' = IF ok THEN [names EXCEPT ![unwrap(cur.channel_id)] = unwrap(cur.name)]
                         ELSE names
    /\ pc' = "recv"
    /\ cur' = NoCall
    /\ UNCHANGED << users, channels, voice_states, cached, queue, scenario >>
    /\ UNCHANGED feedVars
    /\ UNCHANGED startVars
    /\ UNCHANGED lockVars

Consumer == Recv \/ Find \/ Memo \/ Decide \/ Edit

(***************************************************************************)
(* The gateway task: event_handler.                                        *)
(***************************************************************************)
\* a handler that forgets the live flag of a user who leaves voice
VoiceStateUpdateResettingLive(user_id, channel_id) ==
    /\ IF user_id \in DOMAIN users
       THEN /\ users' = [users EXCEPT
                            ![user_id].has_been_part_of_voice_state_event = TRUE,
                            ![user_id].current_channel_id = channel_id,
                            ![user_id].twitch_is_streaming =
                                IF channel_id = None THEN None ELSE @]
            /\ voice_states' = [voice_states EXCEPT ![user_id] = channel_id]
       ELSE UNCHANGED << users, voice_states >>
    /\ UNCHANGED << channels, names, cached, queue, pc, cur, edits, scenario >>
    /\ UNCHANGED feedVars
    /\ UNCHANGED startVars
    /\ UNCHANGED lockVars

\* FullEvent::VoiceStateUpdate { new }: serenity updates its cache, then the
\* handler updates the store under the write lock
VoiceStateUpdate(user_id, channel_id) ==
    /\ IF user_id \in DOMAIN users
       THEN /\ users' = [users EXCEPT
                            ![user_id].has_been_part_of_voice_state_event = TRUE,
                            ![user_id].current_channel_id = channel_id]
            /\ voice_states' = [voice_states EXCEPT ![user_id] = channel_id]
       ELSE \* "User isn't monitored"
            UNCHANGED << users, voice_states >>
    /\ UNCHANGED << channels, names, cached, queue, pc, cur, edits, scenario >>
    /\ UNCHANGED feedVars
    /\ UNCHANGED startVars
    /\ UNCHANGED lockVars

VoiceEvent ==
    \E user_id \in DiscordIds \cup {UnmonitoredDiscordId} :
        \E channel_id \in Option(ChannelIds) :
            VoiceStateUpdate(user_id, channel_id)

\* serenity fills its cache when the guild becomes available
GuildCreate ==
    /\ cached # ChannelIds
    /\ cached' = ChannelIds
    /\ UNCHANGED << users, channels, voice_states, names, queue, pc, cur, edits, scenario >>
    /\ UNCHANGED feedVars
    /\ UNCHANGED startVars
    /\ UNCHANGED lockVars

(***************************************************************************)
(* The RwLock of the store, one acquisition at a time: the discovery of    *)
(* the consumer task, which takes the read lock twice, and the gateway's   *)
(* VoiceStateUpdate handler, which takes the write lock.  tokio's RwLock   *)
(* is write-preferring: a write().await that waits makes every later       *)
(* read().await wait behind it.                                            *)
(***************************************************************************)
\* the gateway handler before the first VoiceStateUpdate
NoEvent == [ pc |-> "idle", user_id |-> None, channel_id |-> None, n |-> 0 ]

\* no task holds or awaits the lock, and no scan was made
StoreUnlocked ==
    /\ guards = 0
    /\ gw = NoEvent
    /\ scanned = [ d \in DiscordIds |-> "never" ]

\* RwLock::read().await returns: no writer holds or awaits the lock
CanRead == gw.pc # "write"

\* RwLock::write().await returns: no guard is held
CanWrite == guards = 0

\* find_current_user_voice_channel: the first twitch.read().await, users.get
\* and the branch on has_been_part_of_voice_state_event.  The guard is a
\* temporary of the if let: it is held until the end of its block.
FindRead ==
    /\ pc = "find"
    /\ CanRead
    /\ LET user == users[unwrap(cur.user)]
       IN  IF user.has_been_part_of_voice_state_event
           THEN /\ cur' = [cur EXCEPT !.channel_id = user.current_channel_id]
                /\ pc' = "memo"
                /\ guards' = 0
           ELSE \* "searching user current voice channel slow way"
                /\ pc' = "scan"
                /\ guards' = guards + 1
                /\ UNCHANGED cur
    /\ UNCHANGED << users, channels, voice_states, names, cached, queue, edits, scenario >>
    /\ UNCHANGED << gw, scanned >>
    /\ UNCHANGED feedVars
    /\ UNCHANGED startVars

\* find_current_user_voice_channel: the second twitch.read().await, taken
\* while the first guard is held, and the loop over the servers; both guards
\* are dropped when the if let ends
FindScan ==
    /\ pc = "scan"
    /\ CanRead
    /\ LET user == users[unwrap(cur.user)]
           ret  == voice_states[user.discord_id]
       IN  /\ cur' = [cur EXCEPT !.channel_id = ret]
           /\ scanned' = [scanned EXCEPT ![user.discord_id] =
                             IF ret = None THEN "missed" ELSE "found"]
    /\ pc' = "memo"
    /\ guards' = 0
    /\ UNCHANGED << users, channels, voice_states, names, cached, queue, edits, scenario >>
    /\ UNCHANGED gw
    /\ UNCHANGED feedVars
    /\ UNCHANGED startVars

\* FullEvent::VoiceStateUpdate { new } is dispatched: serenity has updated its
\* cache, and the handler calls twitch.write().await
VoiceStateUpdateReceived(user_id, channel_id) ==
    /\ gw.pc = "idle"
    /\ gw.n < MaxVoiceEvents
    /\ gw' = [ pc |-> "write", user_id |-> Some(user_id), channel_id |-> channel_id,
               n |-> gw.n + 1 ]
    /\ voice_states' = IF user_id \in DOMAIN voice_states
                       THEN [voice_states EXCEPT ![user_id] = channel_id]
                       ELSE voice_states
    /\ UNCHANGED << users, channels, names, cached, queue, pc, cur, edits, scenario >>
    /\ UNCHANGED << guards, scanned >>
    /\ UNCHANGED feedVars
    /\ UNCHANGED startVars

\* a handler that registers the user of every event it sees
VoiceStateUpdateWriteRegistering ==
    /\ gw.pc = "write"
    /\ CanWrite
    /\ LET user_id == unwrap(gw.user_id)
       IN  /\ users' = MapInsert(users, user_id,
                          [ discord_id |-> user_id,
                            twitch_id |-> 0,
                            current_channel_id |-> gw.channel_id,
                            twitch_is_streaming |-> None,
                            has_been_part_of_voice_state_event |-> TRUE ])
           /\ scanned' = IF user_id \in DOMAIN scanned
                         THEN [scanned EXCEPT ![user_id] = "never"]
                         ELSE scanned
    /\ gw' = [gw EXCEPT !.pc = "idle"]
    /\ UNCHANGED << channels, voice_states, names, cached, queue, pc, cur, edits, scenario >>
    /\ UNCHANGED guards
    /\ UNCHANGED feedVars
    /\ UNCHANGED startVars

\* the handler holds the write lock: data.users.get_mut(&new.user_id) and the
\* two assignments, or "User isn't monitored"
VoiceStateUpdateWrite ==
    /\ gw.pc = "write"
    /\ CanWrite
    /\ LET user_id == unwrap(gw.user_id)
       IN  IF user_id \in DOMAIN users
           THEN /\ users' = [users EXCEPT
                                ![user_id].has_been_part_of_voice_state_event = TRUE,
                                ![user_id].current_channel_id = gw.channel_id]
                /\ scanned' = [scanned EXCEPT ![user_id] = "never"]
           ELSE UNCHANGED << users, scanned >>
    /\ gw' = [gw EXCEPT !.pc = "idle"]
    /\ UNCHANGED << channels, voice_states, names, cached, queue, pc, cur, edits, scenario >>
    /\ UNCHANGED guards
    /\ UNCHANGED feedVars
    /\ UNCHANGED startVars

VoiceEventReceived ==
    \E user_id \in DiscordIds \cup {UnmonitoredDiscordId} :
        \E channel_id \in Option(ChannelIds) :
            VoiceStateUpdateReceived(user_id, channel_id)

(***************************************************************************)
(* The websocket client, seen from the channel: sender.send(InterComm).    *)
(***************************************************************************)
Notify ==
    /\ Len(queue) < MaxQueue
    /\ \E t \in MessageTypes, b \in BroadcasterIds :
          queue' = Append(queue, [message_type |-> t, streamer_user_id |-> b])
    /\ UNCHANGED << users, channels, voice_states, names, cached, pc, cur, edits, scenario >>
    /\ UNCHANGED feedVars
    /\ UNCHANGED startVars
    /\ UNCHANGED lockVars

(***************************************************************************)
(* The websocket client: WebsocketClient (twitch/websocket.rs), Twitch's   *)
(* EventSub websocket and its Helix subscription endpoints.                *)
(***************************************************************************)
\* twitch_api::TWITCH_EVENTSUB_WEBSOCKET_URL
TWITCH_EVENTSUB_WEBSOCKET_URL == "wss://eventsub.wss.twitch.tv/ws"

\* the reconnect_url of a session_reconnect payload
ReconnectUrl == "wss://reconnect"

\* sleep(Duration::from_secs(30))
RetryDelay == 30

\* u64::to_string, for the one-digit ids of the model: the digits
u64_to_string(n) == << n >>

\* WebsocketClient.user_ids: the configured twitch_channel_id, as strings
user_ids ==
    LET RECURSIVE InOrder(_)
        InOrder(S) ==
            IF S = {} THEN << >>
            ELSE LET m == CHOOSE x \in S : \A y \in S : x.discord_id <= y.discord_id
                 IN  << u64_to_string(m.twitch_channel_id) >> \o InOrder(S \ {m})
    IN  InOrder(TwitchUsers)

\* EventType, as Twitch names the types
StreamOnline == "stream.online"

StreamOffline == "stream.offline"

EventTypes == {StreamOnline, StreamOffline, "channel.update"}

\* serde_json::Value::String(s), the broadcaster_user_id of a condition
JsonString(s) == [ string |-> s ]

\* a conversion that yields the string itself, as Value::as_str would
Value_as_str(v) == v.string

\* <serde_json::Value as Display>::to_string on a Value::String: the JSON
\* text of the value, the string between double quotes (character 34)
Value_to_string(v) == << 34 >> \o v.string \o << 34 >>

\* the subscriptions Twitch may hold when the client starts: made by earlier
\* runs (session 0), for configured and other broadcasters and types
RemoteUniverse ==
    { [ id |-> 1, type_ |-> StreamOnline,
        condition |-> JsonString(u64_to_string(3)), session |-> 0 ],
      [ id |-> 2, type_ |-> StreamOffline,
        condition |-> JsonString(u64_to_string(1)), session |-> 0 ],
      [ id |-> 3, type_ |-> "channel.update",
        condition |-> JsonString(u64_to_string(4)), session |-> 0 ] }

\* the pages of get_eventsub_subscriptions collected into a Vec, by id
RECURSIVE SubsById(_)
SubsById(S) ==
    IF S = {} THEN << >>
    ELSE LET m == CHOOSE x \in S : \A y \in S : x.id <= y.id
         IN  << m >> \o SubsById(S \ {m})

\* process_welcome_message, "add all the event we need to have"
RECURSIVE DesiredList(_)
DesiredList(ids) ==
    IF ids = << >> THEN << >>
    ELSE << [ user_id |-> Head(ids), event_id |-> None, event_type |-> StreamOnline ],
            [ user_id |-> Head(ids), event_id |-> None, event_type |-> StreamOffline ] >>
         \o DesiredList(Tail(ids))

\* a Helix call of a pass, as the history records it
Call(op, type_, user_id, id, ok) ==
    [ op |-> op, type_ |-> type_, user_id |-> user_id, id |-> id, ok |-> ok ]

\* a matching loop that leaves at Twitch what it does not recognise
RECURSIVE FindExistingKeepingExtras(_, _, _)
FindExistingKeepingExtras(subs, st, fail) ==
    IF subs = << >> THEN st
    ELSE LET sub  == Head(subs)
             hits == { i \in 1..Len(st.list) :
                         /\ st.list[i].event_type = sub.type_
                         /\ st.list[i].user_id = Value_to_string(sub.condition) }
         IN  IF hits # {}
             THEN LET i == CHOOSE x \in hits : \A y \in hits : x <= y
                  IN  FindExistingKeepingExtras(Tail(subs),
                         [st EXCEPT !.list[i].event_id = Some(sub.id)], fail)
             ELSE FindExistingKeepingExtras(Tail(subs), st, fail)

\* the state of a pass: the local list, Twitch's subscriptions, the next id
\* Twitch gives, the calls made, whether a call failed.  `fail` is the number
\* of the call that fails in the pass (no call has number 0).
\*
\* process_welcome_message, "find event that are already subscribed"
RECURSIVE FindExisting(_, _, _)
FindExisting(subs, st, fail) ==
    IF subs = << >> THEN st
    ELSE LET sub  == Head(subs)
             hits == { i \in 1..Len(st.list) :
                         /\ st.list[i].event_type = sub.type_
                         /\ st.list[i].user_id = Value_to_string(sub.condition) }
         IN  IF hits # {}
             THEN LET i == CHOOSE x \in hits : \A y \in hits : x <= y
                  IN  FindExisting(Tail(subs),
                                   [st EXCEPT !.list[i].event_id = Some(sub.id)], fail)
             ELSE IF Len(st.calls) + 1 = fail
             THEN [st EXCEPT
                     !.calls = Append(@, Call("delete", sub.type_, sub.condition.string,
                                              sub.id, FALSE)),
                     !.err = TRUE]
             ELSE FindExisting(Tail(subs),
                               [st EXCEPT
                                  !.remote = @ \ {sub},
                                  !.calls = Append(@, Call("delete", sub.type_,
                                                           sub.condition.string,
                                                           sub.id, TRUE))],
                               fail)

\* a creation loop that logs a failed call and goes on to the next entry
RECURSIVE CreateMissingPastFailure(_, _, _, _)
CreateMissingPastFailure(i, st, session, fail) ==
    IF i > Len(st.list) THEN st
    ELSE LET to_sub == st.list[i]
         IN  IF to_sub.event_id # None
             THEN CreateMissingPastFailure(i + 1, st, session, fail)
             ELSE IF Len(st.calls) + 1 = fail
             THEN CreateMissingPastFailure(i + 1,
                     [st EXCEPT
                        !.calls = Append(@, Call("create", to_sub.event_type,
                                                 to_sub.user_id, st.next_id, FALSE)),
                        !.err = TRUE],
                     session, fail)
             ELSE CreateMissingPastFailure(i + 1,
                                [st EXCEPT
                                   !.remote = @ \cup
                                       { [ id |-> st.next_id,
                                           type_ |-> to_sub.event_type,
                                           condition |-> JsonString(to_sub.user_id),
                                           session |-> session ] },
                                   !.next_id = @ + 1,
                                   !.list[i].event_id = Some(st.next_id),
                                   !.calls = Append(@, Call("create", to_sub.event_type,
                                                            to_sub.user_id, st.next_id,
                                                            TRUE))],
                                session, fail)

\* process_welcome_message, "add sub for missing events"
RECURSIVE CreateMissing(_, _, _, _)
CreateMissing(i, st, session, fail) ==
    IF i > Len(st.list) THEN st
    ELSE LET to_sub == st.list[i]
         IN  IF to_sub.event_id # None
             THEN CreateMissing(i + 1, st, session, fail)
             ELSE IF Len(st.calls) + 1 = fail
             THEN [st EXCEPT
                     !.calls = Append(@, Call("create", to_sub.event_type,
                                              to_sub.user_id, st.next_id, FALSE)),
                     !.err = TRUE]
             ELSE CreateMissing(i + 1,
                                [st EXCEPT
                                   !.remote = @ \cup
                                       { [ id |-> st.next_id,
                                           type_ |-> to_sub.event_type,
                                           condition |-> JsonString(to_sub.user_id),
                                           session |-> session ] },
                                   !.next_id = @ + 1,
                                   !.list[i].event_id = Some(st.next_id),
                                   !.calls = Append(@, Call("create", to_sub.event_type,
                                                            to_sub.user_id, st.next_id,
                                                            TRUE))],
                                session, fail)

\* WebsocketClient::process_welcome_message(data): the fields it leaves, what
\* it leaves at Twitch, and whether it returned Err
process_welcome_message(data, fail) ==
    LET url  == IF data.reconnect_url # None THEN unwrap(data.reconnect_url)
                ELSE connect_url
        list == Call("list", "", << >>, 0, fail # 1)
        st0  == [ list |-> DesiredList(user_ids), remote |-> remote,
                  next_id |-> next_id, calls |-> << list >>, err |-> FALSE ]
        st1  == FindExisting(SubsById(remote), st0, fail)
        st2  == IF st1.err THEN st1 ELSE CreateMissing(1, st1, data.id, fail)
    IN  IF fail = 1
        THEN [ session_id |-> Some(data.id), connect_url |-> url,
               event_sub_id |-> event_sub_id, remote |-> remote,
               next_id |-> next_id, calls |-> << list >>, err |-> TRUE ]
        ELSE [ session_id |-> Some(data.id), connect_url |-> url,
               event_sub_id |-> st2.list, remote |-> st2.remote,
               next_id |-> st2.next_id, calls |-> st2.calls, err |-> st2.err ]

\* no connection yet
NoConn == [ id |-> 0, st |-> "none", url |-> "" ]

\* tokio_tungstenite::connect_async to `url`: the n-th connection, on which
\* Twitch has sent nothing yet
NewConn(n, url) == [ id |-> n, st |-> "fresh", url |-> url ]

\* the messages a notification produces
InterComm(t, b) == [ message_type |-> t, streamer_user_id |-> b ]

\* the broadcasters Twitch notifies this session about: those of the
\* subscriptions the client creates
Subscribed == { m.twitch_channel_id : m \in TwitchUsers }

\* what futures::StreamExt::next(&mut s) may yield on connection c: Twitch
\* opens with session_welcome and sends session_reconnect at most once; the
\* stream may fail or end at any time and, once ended, yields None again
Frames(c) ==
    IF c.st = "ended" THEN { [ kind |-> "none" ] }
    ELSE { [ kind |-> "none" ], [ kind |-> "error", reset |-> FALSE ] }
         \cup (IF c.id < MaxConns THEN { [ kind |-> "error", reset |-> TRUE ] } ELSE {})
         \cup (IF c.st = "fresh"
               THEN { [ kind |-> "welcome",
                        session |-> [ id |-> c.id, reconnect_url |-> None ] ] }
               ELSE { [ kind |-> "keepalive" ], [ kind |-> "revocation" ],
                      [ kind |-> "close" ], [ kind |-> "unparsable" ] }
                    \cup { [ kind |-> "notification", type_ |-> t, broadcaster |-> b ] :
                             t \in {StreamOnline, StreamOffline}, b \in Subscribed }
                    \cup { [ kind |-> "notification", type_ |-> t,
                             broadcaster |-> CHOOSE b \in Subscribed : TRUE ] :
                             t \in EventTypes \ {StreamOnline, StreamOffline} })
         \cup (IF c.st = "open"
               THEN { [ kind |-> "reconnect",
                        session |-> [ id |-> c.id,
                                      reconnect_url |-> Some(ReconnectUrl) ] ] }
               ELSE {})

\* the state Twitch's side of the connection is in after yielding frame f
ConnAfter(c, f) ==
    [c EXCEPT !.st = IF f.kind = "none" THEN "ended"
                     ELSE IF f.kind = "welcome" THEN "open"
                     ELSE IF f.kind = "reconnect" THEN "migrating"
                     ELSE @]

\* the Receiver lives in the consumer task and is dropped when it panics
ReceiverDropped == pc = "panicked"

\* run: self.connect().await? before the loop
Connect ==
    /\ fpc = "connect"
    /\ \E ok \in BOOLEAN :
          IF ok THEN /\ conn' = NewConn(1, connect_url)
                     /\ fpc' = "select"
                ELSE /\ fpc' = "returned"
                     /\ UNCHANGED conn
    /\ UNCHANGED << connect_url, session_id, event_sub_id, remote, next_id, pending,
                    calls, frame, delay >>
    /\ UNCHANGED << queue, pc >>
    /\ UNCHANGED discordVars
    /\ UNCHANGED startVars
    /\ UNCHANGED lockVars

\* a hand-over that waits until the consumer is back at recv
SendWhenConsumerIdle(msg) ==
    IF ReceiverDropped
    THEN [ fpc |-> "returned", queue |-> queue, pending |-> None ]
    ELSE IF Len(queue) < MaxQueue /\ pc = "recv"
    THEN [ fpc |-> "select", queue |-> Append(queue, msg), pending |-> None ]
    ELSE [ fpc |-> "send", queue |-> queue, pending |-> Some(msg) ]

\* handle_streamer_online / handle_streamer_offline: self.sender.send(..).await?
\* The result is the position of run, the channel and the message held back.
Send(msg) ==
    IF ReceiverDropped
    THEN \* SendError: process_message and run return Err
         [ fpc |-> "returned", queue |-> queue, pending |-> None ]
    ELSE IF Len(queue) < MaxQueue
    THEN [ fpc |-> "select", queue |-> Append(queue, msg), pending |-> None ]
    ELSE \* the channel is full: the send waits for a permit
         [ fpc |-> "send", queue |-> queue, pending |-> Some(msg) ]

\* a reconnection that keeps reading the old stream
OnResetSameConn(ok) ==
    [ fpc |-> IF ok THEN "select" ELSE "returned", conn |-> conn ]

\* a reconnection that always targets the default endpoint
OnResetToDefaultUrl(ok) ==
    IF ok THEN [ fpc |-> "select",
                 conn |-> NewConn(conn.id + 1, TWITCH_EVENTSUB_WEBSOCKET_URL) ]
          ELSE [ fpc |-> "returned", conn |-> conn ]

\* run, the ResetWithoutClosingHandshake arm: s = self.connect().await...?; continue
OnReset(ok) ==
    IF ok THEN [ fpc |-> "select", conn |-> NewConn(conn.id + 1, connect_url) ]
          ELSE [ fpc |-> "returned", conn |-> conn ]

\* an arm that drops the session id along with the frame
LogOnlyForgettingSession ==
    /\ fpc' = "select"
    /\ session_id' = None
    /\ UNCHANGED << connect_url, event_sub_id, remote, next_id, pending, calls, queue >>

\* the arms of process_message that log the frame and return Ok(()):
\* Revocation, Keepalive, a notification of another type, Close
LogOnly ==
    /\ fpc' = "select"
    /\ UNCHANGED << connect_url, session_id, event_sub_id, remote,
                    next_id, pending, calls, queue >>

\* one turn of the loop of run: the select!, and process_message on what the
\* stream yielded
ReadFrame ==
    /\ fpc = "select"
    /\ \E f \in Frames(conn) :
          /\ frame' = f
          /\ delay' = 0
          /\ IF f.kind = "error" /\ f.reset
             THEN /\ \E ok \in BOOLEAN :
                        LET r == OnReset(ok)
                        IN  fpc' = r.fpc /\ conn' = r.conn
                  /\ UNCHANGED << connect_url, session_id, event_sub_id, remote,
                                  next_id, pending, calls, queue >>
             ELSE IF f.kind = "none"
             THEN \* the else arm of select!
                  /\ fpc' = "sleep"
                  /\ conn' = ConnAfter(conn, f)
                  /\ UNCHANGED << connect_url, session_id, event_sub_id, remote,
                                  next_id, pending, calls, queue >>
             ELSE IF f.kind \in {"error", "unparsable"}
             THEN \* msg.context("when getting message")?, Event::parse_websocket(&s)?
                  /\ fpc' = "returned"
                  /\ conn' = ConnAfter(conn, f)
                  /\ UNCHANGED << connect_url, session_id, event_sub_id, remote,
                                  next_id, pending, calls, queue >>
             ELSE IF f.kind \in {"welcome", "reconnect"}
             THEN \E fail \in 0..(1 + Cardinality(remote) + Len(DesiredList(user_ids))) :
                     LET r == process_welcome_message(f.session, fail)
                     IN  /\ session_id' = r.session_id
                         /\ connect_url' = r.connect_url
                         /\ event_sub_id' = r.event_sub_id
                         /\ remote' = r.remote
                         /\ next_id' = r.next_id
                         /\ calls' = r.calls
                         \* an Err is logged and process_message returns Ok(())
                         /\ fpc' = "select"
                         /\ conn' = ConnAfter(conn, f)
                         /\ UNCHANGED << pending, queue >>
             ELSE IF f.kind = "notification" /\ f.type_ \in {StreamOnline, StreamOffline}
             THEN LET r == Send(InterComm(IF f.type_ = StreamOnline
                                          THEN "TwitchStreamOnline"
                                          ELSE "TwitchStreamOffline",
                                          f.broadcaster))
                  IN  /\ fpc' = r.fpc
                      /\ queue' = r.queue
                      /\ pending' = r.pending
                      /\ conn' = ConnAfter(conn, f)
                      /\ UNCHANGED << connect_url, session_id, event_sub_id, remote,
                                      next_id, calls >>
             ELSE \* another notification, a revocation, a keepalive, a close
                  /\ LogOnly
                  /\ conn' = ConnAfter(conn, f)
    /\ UNCHANGED pc
    /\ UNCHANGED discordVars
    /\ UNCHANGED startVars
    /\ UNCHANGED lockVars

\* the sleep of the else arm is over: the loop goes round
Wake ==
    /\ fpc = "sleep"
    /\ fpc' = "select"
    /\ delay' = RetryDelay
    /\ UNCHANGED << conn, connect_url, session_id, event_sub_id, remote, next_id,
                    pending, calls, frame >>
    /\ UNCHANGED << queue, pc >>
    /\ UNCHANGED discordVars
    /\ UNCHANGED startVars
    /\ UNCHANGED lockVars

\* a send that waited gets its permit, or learns that the Receiver is gone
SendResume ==
    /\ fpc = "send"
    /\ ReceiverDropped \/ Len(queue) < MaxQueue
    /\ LET r == Send(unwrap(pending))
       IN  /\ fpc' = r.fpc
           /\ queue' = r.queue
           /\ pending' = r.pending
    /\ UNCHANGED << conn, connect_url, session_id, event_sub_id, remote, next_id,
                    calls, frame, delay >>
    /\ UNCHANGED pc
    /\ UNCHANGED discordVars
    /\ UNCHANGED startVars
    /\ UNCHANGED lockVars

\* the consumer, seen from the channel: receiver.recv() takes the head
ChannelRecv ==
    /\ pc = "recv"
    /\ queue # << >>
    /\ queue' = Tail(queue)
    /\ UNCHANGED pc
    /\ UNCHANGED feedVars
    /\ UNCHANGED startVars
    /\ UNCHANGED lockVars
    /\ UNCHANGED discordVars

\* the consumer, seen from the channel: the task panics (the unwrap of
\* get_channel_new_name), which drops the Receiver and what the channel holds
ConsumerPanics ==
    /\ pc = "recv"
    /\ pc' = "panicked"
    /\ queue' = << >>
    /\ UNCHANGED feedVars
    /\ UNCHANGED startVars
    /\ UNCHANGED lockVars
    /\ UNCHANGED discordVars

\* the websocket client before run is called
FeedNotStarted ==
    /\ fpc = "connect"
    /\ conn = NoConn
    /\ connect_url = TWITCH_EVENTSUB_WEBSOCKET_URL
    /\ session_id = None
    /\ event_sub_id = << >>
    /\ next_id = Cardinality(RemoteUniverse) + 1
    /\ pending = None
    /\ calls = << >>
    /\ frame = [ kind |-> "start" ]
    /\ delay = 0

(***************************************************************************)
(* The slash command update_streaming_status (discord/twitch.rs), which a  *)
(* trusted user invokes: the second holder of a Sender of the channel.     *)
(***************************************************************************)
\* the message the command sends for a registered user
CommandMessage(user, is_streaming) ==
    InterComm(IF is_streaming THEN "TwitchStreamOnline" ELSE "TwitchStreamOffline",
              users[user].twitch_id)

\* a command that sends for whatever user it is given, under the user's own id
update_streaming_status_for_anyone(user, is_streaming) ==
    /\ IF ~ReceiverDropped
       THEN /\ Len(queue) < MaxQueue
            /\ queue' = Append(queue,
                           InterComm(IF is_streaming THEN "TwitchStreamOnline"
                                     ELSE "TwitchStreamOffline", user))
       ELSE UNCHANGED queue
    /\ UNCHANGED pc
    /\ UNCHANGED discordVars
    /\ UNCHANGED feedVars
    /\ UNCHANGED startVars
    /\ UNCHANGED lockVars

\* update_streaming_status(ctx, user, is_streaming): "User isn't registered"
\* for a user outside the store; otherwise sender.lock().await.send(..).await?,
\* which waits while the channel is full and fails once the Receiver is gone
update_streaming_status(user, is_streaming) ==
    /\ IF user \in DOMAIN users /\ ~ReceiverDropped
       THEN /\ Len(queue) < MaxQueue
            /\ queue' = Append(queue, CommandMessage(user, is_streaming))
       ELSE UNCHANGED queue
    /\ UNCHANGED pc
    /\ UNCHANGED discordVars
    /\ UNCHANGED feedVars
    /\ UNCHANGED startVars
    /\ UNCHANGED lockVars

SlashCommand ==
    \E user \in DiscordIds \cup {UnmonitoredDiscordId}, is_streaming \in BOOLEAN :
        update_streaming_status(user, is_streaming)

(***************************************************************************)
(* The start of the service: main, websocket::run, the Ready handler.      *)
(***************************************************************************)
\* a lock().await that reads the slot and leaves the Receiver in it
peek(slot) == [ value |-> slot, slot |-> slot ]

\* Option::take
take(slot) == [ value |-> slot, slot |-> None ]

\* FullEvent::Ready with twitch.enabled: the Receiver is taken out of Data and
\* a task is spawned that unwraps it and runs twitch_event_handler
Ready ==
    /\ readys < MaxReady
    /\ readys' = readys + 1
    /\ LET r == take(receiver)
       IN  /\ receiver' = r.slot
           /\ IF r.value # None
              THEN /\ consumers' = consumers + 1
                   /\ pc' = "recv"
              ELSE \* receiver.unwrap() panics in the spawned task
                   UNCHANGED << consumers, pc >>
    /\ UNCHANGED << users, channels, voice_states, names, cached, queue, cur, edits,
                    scenario >>
    /\ UNCHANGED feedVars
    /\ UNCHANGED lockVars

\* websocket::run: TwitchToken::new().await?, which returns the token, returns
\* Err, or panics with "Auth failed"; the last two end the task of the client
Auth ==
    /\ fpc = "auth"
    /\ \E ok \in BOOLEAN : fpc' = IF ok THEN "connect" ELSE "auth_failed"
    /\ UNCHANGED << conn, connect_url, session_id, event_sub_id, remote, next_id,
                    pending, calls, frame, delay >>
    /\ UNCHANGED << queue, pc >>
    /\ UNCHANGED discordVars
    /\ UNCHANGED startVars
    /\ UNCHANGED lockVars

\* the consumer task of the first Ready is running
ConsumerStarted ==
    /\ receiver = None
    /\ consumers = 1
    /\ readys = 1

(***************************************************************************)
(* Specification of the consumer and the gateway handler.                  *)
(***************************************************************************)
Init ==
    /\ users = InitUsers
    /\ channels = << >>
    /\ voice_states \in [DiscordIds -> Option(ChannelIds)]
    /\ names = [c \in ChannelIds |-> "general"]
    /\ cached \in {{}, ChannelIds}
    /\ queue = << >>
    /\ pc = "recv"
    /\ cur = NoCall
    /\ edits = << >>
    /\ scenario = None
    /\ FeedNotStarted
    /\ remote = {}
    /\ ConsumerStarted
    /\ StoreUnlocked

Next == Consumer \/ VoiceEvent \/ GuildCreate \/ Notify

Spec == Init /\ [][Next]_vars

(***************************************************************************)
(* Specification of the consumer alone, started with two users in the same *)
(* voice channel and the four messages of the co-occupancy scenario on the *)
(* channel.  No gateway event arrives while the messages are handled.      *)
(***************************************************************************)
\* the maps `channels` may be when channel r has no record
ChannelMapsWithout(r) ==
    UNION { [D -> [original_name : ChannelNames]] : D \in SUBSET (ChannelIds \ {r}) }

TwitchIdOf(d) == (CHOOSE m \in TwitchUsers : m.discord_id = d).twitch_channel_id

InitCoOcc ==
    \E a \in DiscordIds, b \in DiscordIds, r \in ChannelIds :
        /\ a # b
        /\ \E live \in [DiscordIds -> {None, Some(FALSE)}] :
              users = [ d \in DiscordIds |->
                          [InitUsers[d] EXCEPT
                              !.current_channel_id = Some(r),
                              !.has_been_part_of_voice_state_event = TRUE,
                              !.twitch_is_streaming = live[d]] ]
        /\ channels \in ChannelMapsWithout(r)
        /\ voice_states = [ d \in DiscordIds |-> Some(r) ]
        /\ names \in [ChannelIds -> ChannelNames]
        /\ cached \in { S \in SUBSET ChannelIds : r \in S }
        /\ queue = << [message_type |-> "TwitchStreamOnline", streamer_user_id |-> TwitchIdOf(a)],
                      [message_type |-> "TwitchStreamOnline", streamer_user_id |-> TwitchIdOf(b)],
                      [message_type |-> "TwitchStreamOffline", streamer_user_id |-> TwitchIdOf(a)],
                      [message_type |-> "TwitchStreamOffline", streamer_user_id |-> TwitchIdOf(b)] >>
        /\ pc = "recv"
        /\ cur = NoCall
        /\ edits = << >>
        /\ scenario = [ a |-> a, b |-> b, room |-> r, name |-> names[r] ]
        /\ FeedNotStarted
        /\ remote = {}
        /\ ConsumerStarted
        /\ StoreUnlocked

SpecCoOcc == InitCoOcc /\ [][Consumer]_vars

(***************************************************************************)
(* Specification of the websocket client.                                  *)
(***************************************************************************)
InitFeed ==
    /\ users = InitUsers
    /\ channels = << >>
    /\ voice_states = [ d \in DiscordIds |-> None ]
    /\ names = [c \in ChannelIds |-> "general"]
    /\ cached = ChannelIds
    /\ queue = << >>
    /\ pc = "recv"
    /\ cur = NoCall
    /\ edits = << >>
    /\ scenario = None
    /\ FeedNotStarted
    /\ remote \in SUBSET RemoteUniverse
    /\ ConsumerStarted
    /\ StoreUnlocked

NextFeed == Connect \/ ReadFrame \/ Wake \/ SendResume \/ ChannelRecv \/ ConsumerPanics

SpecFeed == InitFeed /\ [][NextFeed]_vars

(***************************************************************************)
(* Specification of the two loops together: the websocket client on its    *)
(* last connection, streaming after its reconciliation passes, and the     *)
(* consumer task.                                                          *)
(***************************************************************************)
\* what a pass whose calls all succeed leaves, from subscriptions rem and
\* next id nid, for the session of connection k
SuccessfulPass(rem, nid, k) ==
    LET st0 == [ list |-> DesiredList(user_ids), remote |-> rem, next_id |-> nid,
                 calls |-> << Call("list", "", << >>, 0, TRUE) >>, err |-> FALSE ]
    IN  CreateMissing(1, FindExisting(SubsById(rem), st0, 0), k, 0)

\* the welcome passes of connections 1..k, each followed by a reset
RECURSIVE AfterWelcomes(_)
AfterWelcomes(k) ==
    IF k = 0
    THEN [ remote |-> {}, next_id |-> Cardinality(RemoteUniverse) + 1 ]
    ELSE LET before == AfterWelcomes(k - 1)
         IN  SuccessfulPass(before.remote, before.next_id, k)

InitBoth ==
    /\ users = InitUsers
    /\ channels = << >>
    /\ voice_states \in [DiscordIds -> {Some(c) : c \in ChannelIds}]
    /\ names = [c \in ChannelIds |-> "general"]
    /\ cached = ChannelIds
    /\ queue = << >>
    /\ pc = "recv"
    /\ cur = NoCall
    /\ edits = << >>
    /\ scenario = None
    /\ ConsumerStarted
    /\ StoreUnlocked
    /\ LET welcomed == AfterWelcomes(MaxConns)
           last     == SuccessfulPass(welcomed.remote, welcomed.next_id, MaxConns)
       IN  /\ fpc = "select"
           /\ conn = [ id |-> MaxConns, st |-> "migrating",
                       url |-> TWITCH_EVENTSUB_WEBSOCKET_URL ]
           /\ connect_url = ReconnectUrl
           /\ session_id = Some(MaxConns)
           /\ event_sub_id = last.list
           /\ remote = last.remote
           /\ next_id = last.next_id
           /\ calls = last.calls
           /\ pending = None
           /\ frame = [ kind |-> "reconnect",
                        session |-> [ id |-> MaxConns,
                                      reconnect_url |-> Some(ReconnectUrl) ] ]
           /\ delay = 0

NextBoth == ReadFrame \/ Wake \/ SendResume \/ Consumer

SpecBoth == InitBoth /\ [][NextBoth]_vars

(***************************************************************************)
(* Specification of the start of the service: main has created the channel *)
(* and spawned the two tasks; the gateway delivers Ready, the client asks  *)
(* for its token, status messages arrive.                                  *)
(***************************************************************************)
InitStartup ==
    /\ users = InitUsers
    /\ channels = << >>
    /\ voice_states \in [DiscordIds -> {Some(c) : c \in ChannelIds}]
    /\ names = [c \in ChannelIds |-> "general"]
    /\ cached = ChannelIds
    /\ queue = << >>
    /\ pc = "idle"
    /\ cur = NoCall
    /\ edits = << >>
    /\ scenario = None
    /\ fpc = "auth"
    /\ conn = NoConn
    /\ connect_url = TWITCH_EVENTSUB_WEBSOCKET_URL
    /\ session_id = None
    /\ event_sub_id = << >>
    /\ next_id = Cardinality(RemoteUniverse) + 1
    /\ pending = None
    /\ calls = << >>
    /\ frame = [ kind |-> "start" ]
    /\ delay = 0
    /\ remote = {}
    /\ receiver = Some("Receiver")
    /\ consumers = 0
    /\ readys = 0
    /\ StoreUnlocked

NextStartup == Auth \/ Ready \/ Consumer \/ Notify

SpecStartup == InitStartup /\ [][NextStartup]_vars

(***************************************************************************)
(* Specification of the consumer and the gateway handler with the RwLock   *)
(* taken one acquisition at a time in the discovery and in the handler.    *)
(* The other blocks of the consumer take and release the lock within one   *)
(* step; they read nothing of serenity's voice states, so such a step      *)
(* taken while the handler awaits the lock is one taken before the event.  *)
(***************************************************************************)
InitLock ==
    /\ users = InitUsers
    /\ channels = << >>
    /\ voice_states \in [DiscordIds -> Option(ChannelIds)]
    /\ names = [c \in ChannelIds |-> "general"]
    /\ cached = ChannelIds
    /\ queue = << >>
    /\ pc = "recv"
    /\ cur = NoCall
    /\ edits = << >>
    /\ scenario = None
    /\ FeedNotStarted
    /\ remote = {}
    /\ ConsumerStarted
    /\ StoreUnlocked

NextLock ==
    \/ Recv \/ FindRead \/ FindScan \/ Memo \/ Decide \/ Edit
    \/ VoiceEventReceived \/ VoiceStateUpdateWrite
    \/ Notify

SpecLock == InitLock /\ [][NextLock]_vars

(***************************************************************************)
(* Specification of the channel with all its senders: the websocket client *)
(* streaming on its last connection, the slash command, and the consumer.  *)
(***************************************************************************)
NextProducers == ReadFrame \/ Wake \/ SendResume \/ SlashCommand \/ Consumer

SpecProducers == InitBoth /\ [][NextProducers]_vars

(***************************************************************************)
(* Vocabulary of the properties.                                           *)
(***************************************************************************)
\* the configuration pairs some Discord user with broadcaster id b
Monitored(b) == \E m \in TwitchUsers : m.twitch_channel_id = b

\* the step is the consumer taking the head of the channel
RecvStep == pc = "recv" /\ queue # << >> /\ queue' = Tail(queue)

\* the step ends the handling of the message it took: nothing of the store or
\* of Discord changed, no edit was requested, the task waits for the next message
HandledAsNoOp ==
    /\ UNCHANGED << users, channels, names >>
    /\ edits' = << >>
    /\ pc' = "recv"

\* the consumer waits on an empty channel
Quiescent == pc = "recv" /\ queue = << >>

\* the edit request that renames channel c for user d
RenameEdit(c, d) ==
    [ channel |-> c, name |-> renamed_channel_name, user |-> d, is_streaming |-> TRUE ]

\* the edit request that restores channel c to name n for user d
RestoreEdit(c, n, d) ==
    [ channel |-> c, name |-> n, user |-> d, is_streaming |-> FALSE ]

(***************************************************************************)
(* C1. Co-occupancy: with A and B known to be in channel R, R without a    *)
(* record and cached, neither live, the consumer handling A online,        *)
(* B online, A offline, B offline requests a rename of R for the first, no *)
(* edit for the second and the third, and for the fourth a restore of R to *)
(* the name R had before the rename: two edits in all.  It never panics.   *)
(***************************************************************************)
CoOccupancy ==
    /\ pc # "panicked"
    /\ pc = "recv" =>
          /\ Len(queue) = 3 => edits = << RenameEdit(scenario.room, scenario.a) >>
          /\ Len(queue) = 2 => edits = << >>
          /\ Len(queue) = 1 => edits = << >>
          /\ Len(queue) = 0 =>
                edits = << RestoreEdit(scenario.room, scenario.name, scenario.b) >>

\* the four messages are handled and the last one restored a channel that
\* was called something else than the live name
CoOccupancyDone ==
    /\ Quiescent
    /\ scenario # None
    /\ Len(edits) = 1
    /\ ~edits[1].is_streaming
    /\ edits[1].name # renamed_channel_name
    /\ users[scenario.a].twitch_is_streaming = Some(FALSE)
    /\ users[scenario.b].twitch_is_streaming = Some(FALSE)

(***************************************************************************)
(* C2. Idempotence: taking a message whose kind equals the live flag of    *)
(* the user it names is a no-op: no change of the store, no edit request,  *)
(* and the handler is done.                                                *)
(***************************************************************************)
DuplicateAtHead ==
    /\ queue # << >>
    /\ \E d \in DiscordIds :
          /\ users[d].twitch_id = Head(queue).streamer_user_id
          /\ users[d].twitch_is_streaming = Some(is_streaming_of(Head(queue)))

Idempotence == [][ RecvStep /\ DuplicateAtHead => HandledAsNoOp ]_vars

\* a second "online" waits on the channel for a user whose first "online"
\* renamed the channel they are in
IdempotenceCase ==
    /\ pc = "recv"
    /\ DuplicateAtHead
    /\ is_streaming_of(Head(queue))
    /\ \E d \in DiscordIds :
          /\ users[d].twitch_id = Head(queue).streamer_user_id
          /\ users[d].current_channel_id # None
          /\ unwrap(users[d].current_channel_id) \in DOMAIN channels
          /\ edits = << RenameEdit(unwrap(users[d].current_channel_id), d) >>

(***************************************************************************)
(* C5. Room move: a VoiceStateUpdate that moves a live user from channel A *)
(* (renamed, no other live occupant) to channel B requests a restore of A. *)
(***************************************************************************)
OtherLiveOccupant(d, c) ==
    \E e \in DiscordIds \ {d} :
        /\ users[e].current_channel_id = Some(c)
        /\ users[e].twitch_is_streaming = Some(TRUE)

\* the gateway handler moves live user d from channel a to channel b
MovesLive(d, a, b) ==
    /\ Quiescent
    /\ pc' = pc
    /\ users[d].twitch_is_streaming = Some(TRUE)
    /\ users[d].current_channel_id = Some(a)
    /\ users'[d].current_channel_id = Some(b)

RoomMoveRestores ==
    [][ \A d \in DiscordIds, a \in ChannelIds, b \in ChannelIds :
          ( /\ a # b
            /\ MovesLive(d, a, b)
            /\ a \in DOMAIN channels
            /\ ~OtherLiveOccupant(d, a) )
          => /\ edits' # edits
             /\ \E i \in 1..Len(edits') :
                   edits'[i].channel = a /\ ~edits'[i].is_streaming ]_vars

(***************************************************************************)
(* C6. Unknown-user safety: taking a message whose broadcaster id is       *)
(* configured for nobody changes nothing in the store and requests no      *)
(* edit, and the consumer goes on to the next message.                     *)
(***************************************************************************)
UnknownUserSafety ==
    [][ RecvStep /\ ~Monitored(Head(queue).streamer_user_id) => HandledAsNoOp ]_vars

\* a message for an unknown broadcaster waits on the channel while a user is
\* live in a renamed channel
UnknownUserCase ==
    /\ pc = "recv"
    /\ queue # << >>
    /\ ~Monitored(Head(queue).streamer_user_id)
    /\ \E d \in DiscordIds :
          /\ users[d].twitch_is_streaming = Some(TRUE)
          /\ users[d].current_channel_id # None
          /\ unwrap(users[d].current_channel_id) \in DOMAIN channels

(***************************************************************************)
(* C8. Restore on offline: in every quiescent state in which the last      *)
(* status handled for every user is offline, no channel has a record.      *)
(***************************************************************************)
RestoredWhenAllOffline ==
    ( /\ Quiescent
      /\ \A d \in DiscordIds : users[d].twitch_is_streaming = Some(FALSE) )
    => DOMAIN channels = {}

(***************************************************************************)
(* Vocabulary of the properties of the websocket client.                   *)
(***************************************************************************)
\* the desired set {(online, u), (offline, u) : u monitored}
DesiredTuples ==
    { << t, u64_to_string(m.twitch_channel_id) >> :
        t \in {StreamOnline, StreamOffline}, m \in TwitchUsers }

\* a set of subscriptions as (type, broadcaster) tuples
RemoteTuples(S) == { << r.type_, r.condition.string >> : r \in S }

\* a turn of the loop that ran a reconciliation pass
PassStep == ReadFrame /\ frame'.kind \in {"welcome", "reconnect"}

\* every call of the pass succeeded
AllCallsOk(cs) == \A i \in 1..Len(cs) : cs[i].ok

\* the calls of one kind in a pass
CallsOf(cs, op) == { i \in 1..Len(cs) : cs[i].op = op }

\* the message of the notification in frame f
MessageOf(f) ==
    InterComm(IF f.type_ = StreamOnline THEN "TwitchStreamOnline"
              ELSE "TwitchStreamOffline", f.broadcaster)

\* frame f is a stream.online or stream.offline notification
StatusNotification(f) ==
    /\ f.kind = "notification"
    /\ f.type_ \in {StreamOnline, StreamOffline}

\* the connection is one opened after a reset-without-close
Resumed == conn.id > 1

\* a turn of the loop that read a transport error other than the reset
OtherErrorStep == ReadFrame /\ frame'.kind = "error" /\ ~frame'.reset

\* a turn of the loop that found the stream exhausted
ExhaustedStep == ReadFrame /\ frame'.kind = "none"

\* C3: a reconciliation pass whose calls all succeed leaves at Twitch exactly
\* the desired tuples, and it deleted only subscriptions whose tuple is not
\* desired and created only tuples that Twitch did not hold.
ReconcileConverges ==
    [][ PassStep /\ AllCallsOk(calls') =>
          /\ RemoteTuples(remote') = DesiredTuples
          /\ \A i \in CallsOf(calls', "delete") :
                << calls'[i].type_, calls'[i].user_id >> \notin DesiredTuples
          /\ \A i \in CallsOf(calls', "create") :
                << calls'[i].type_, calls'[i].user_id >> \notin RemoteTuples(remote)
      ]_vars

\* C4: a pass makes no delete call for a subscription that matches a desired
\* tuple and no create call for that tuple, and makes no create and no delete
\* call at all when Twitch already holds exactly the desired tuples.
NoRedundantCalls ==
    [][ PassStep =>
          /\ \A r \in remote :
                << r.type_, r.condition.string >> \in DesiredTuples =>
                   \A i \in 1..Len(calls') :
                      /\ ~(calls'[i].op = "delete" /\ calls'[i].id = r.id)
                      /\ ~(/\ calls'[i].op = "create"
                           /\ calls'[i].type_ = r.type_
                           /\ calls'[i].user_id = r.condition.string)
          /\ RemoteTuples(remote) = DesiredTuples =>
                CallsOf(calls', "delete") \cup CallsOf(calls', "create") = {}
      ]_vars

\* C7: when the stream yields a reset-without-close and the new connection
\* is established, run reads from a new connection without sleeping; the
\* welcome of that connection gives a new session and starts a pass from the
\* listing which, when its calls succeed, leaves exactly the desired tuples at
\* Twitch; and every online/offline notification read on that connection is
\* put on the channel, at once or when the channel has room.
ReconnectTransparency ==
    [][ /\ (ReadFrame /\ frame'.kind = "error" /\ frame'.reset /\ fpc' # "returned") =>
              /\ conn' = NewConn(conn.id + 1, connect_url)
              /\ fpc' = "select"
              /\ delay' = 0
        /\ (ReadFrame /\ Resumed /\ frame'.kind = "welcome") =>
              /\ session_id' = Some(conn.id)
              /\ session_id' # session_id
              /\ calls'[1].op = "list"
              /\ AllCallsOk(calls') => RemoteTuples(remote') = DesiredTuples
        /\ (ReadFrame /\ Resumed /\ StatusNotification(frame')) =>
              \/ queue' = Append(queue, MessageOf(frame')) /\ fpc' = "select"
              \/ pending' = Some(MessageOf(frame')) /\ fpc' = "send" /\ queue' = queue
        /\ (SendResume /\ Resumed) =>
              /\ queue' = Append(queue, unwrap(pending))
              /\ fpc' = "select"
      ]_vars

\* C9: when the stream is exhausted or yields a transport error other than
\* the reset, run sleeps the fixed delay, and when the delay is over it reads
\* from a new connection.
DelayThenReconnect ==
    [][ /\ (ExhaustedStep \/ OtherErrorStep) => fpc' = "sleep"
        /\ Wake => /\ delay' = RetryDelay
                   /\ conn'.id = conn.id + 1
                   /\ conn'.st = "fresh"
      ]_vars

\* C10: a transport error other than the reset does not make run return.
OtherErrorKeepsRunning ==
    [][ OtherErrorStep => fpc' # "returned" ]_vars


\* C11: a reset-without-close is followed by no sleep: the turn that read it
\* leaves run at the select! on a new connection (when the connection is
\* established), no delay is taken before the next frame is read, and that
\* frame is the first one of the new connection.
ImmediateReconnect ==
    [][ /\ (ReadFrame /\ frame'.kind = "error" /\ frame'.reset /\ fpc' # "returned") =>
              /\ fpc' = "select"
              /\ conn'.id = conn.id + 1
              /\ conn'.st = "fresh"
              /\ conn'.url = connect_url
        /\ (frame'.kind = "error" /\ frame'.reset) =>
              /\ fpc' # "sleep"
              /\ delay' = 0
        /\ (ReadFrame /\ frame.kind = "error" /\ frame.reset) =>
              /\ conn.st = "fresh"
              /\ delay = 0
              /\ frame' \in Frames(NewConn(conn.id, conn.url))
      ]_vars

\* C11 happens: the welcome of a connection opened after a reset has been
\* read, and no delay was taken.
WelcomeAfterReset ==
    /\ Resumed
    /\ frame.kind = "welcome"
    /\ conn.st = "open"
    /\ fpc = "select"
    /\ delay = 0

\* C12: the channel never holds more than its capacity, and no message is
\* left on it that the consumer will never receive.
QueueBoundedNoLoss ==
    /\ Len(queue) <= MaxQueue
    /\ ~(pc = "panicked" /\ queue # << >>)

\* C13: the consumer takes a message only when it is done with the one
\* before (it is at recv and holds no decision), it takes the head of the
\* channel, and the message it then handles is the one it took.
InOrderOneAtATime ==
    [][ queue' # queue =>
          /\ queue # << >>
          /\ queue' = Tail(queue)
          /\ pc = "recv"
          /\ cur = NoCall
          /\ pc' # "recv" =>
                /\ cur'.user # None
                /\ users[unwrap(cur'.user)].twitch_id = Head(queue).streamer_user_id
                /\ cur'.is_streaming = (Head(queue).message_type = "TwitchStreamOnline")
      ]_vars

\* C13 happens: two of the four messages have been handled, the third has
\* been taken and its decision is in progress, the fourth waits.
ThirdInProgress ==
    /\ scenario # None
    /\ Len(queue) = 1
    /\ pc = "decide"


\* C14: a user's live flag changes only in the step in which the consumer
\* takes a message for that user: that one step compares the flag with the
\* message's kind and writes it, the flag differed before and equals the kind
\* after; no other step of any task writes a live flag.
SetLiveAtomicOnlyWriter ==
    [][ \A d \in DiscordIds :
          users'[d].twitch_is_streaming # users[d].twitch_is_streaming =>
             /\ RecvStep
             /\ Head(queue).streamer_user_id = users[d].twitch_id
             /\ users[d].twitch_is_streaming
                   # Some(Head(queue).message_type = "TwitchStreamOnline")
             /\ users'[d].twitch_is_streaming
                   = Some(Head(queue).message_type = "TwitchStreamOnline")
             /\ \A e \in DiscordIds \ {d} :
                   users'[e].twitch_is_streaming = users[e].twitch_is_streaming
      ]_vars

\* C14 happens: a user's flag was set from offline to online by the message
\* now being handled, after the gateway had written that user's channel.
LiveFlagSetAfterVoiceUpdate ==
    \E d \in DiscordIds :
        /\ pc = "find"
        /\ cur.user = Some(d)
        /\ cur.is_streaming
        /\ users[d].twitch_is_streaming = Some(TRUE)
        /\ users[d].has_been_part_of_voice_state_event
        /\ users[d].current_channel_id # None


\* C15: the step in which the edit call returns, accepted or refused, puts
\* the consumer back at recv with the channel as it was (the next message is
\* taken next), leaves the records as get_channel_new_name wrote them (a
\* record after a rename, none after a restore), and is the only edit request
\* made for the message.
EditFailureSwallowed ==
    [][ (pc = "edit" /\ pc' # "edit") =>
          /\ pc' = "recv"
          /\ queue' = queue
          /\ channels' = channels
          /\ cur.is_streaming => unwrap(cur.channel_id) \in DOMAIN channels'
          /\ ~cur.is_streaming => unwrap(cur.channel_id) \notin DOMAIN channels'
          /\ Len(edits') = 1
      ]_vars

\* C15 happens: Discord refused the rename of a channel (it kept its name),
\* the record is there, and the consumer is about to take the next message.
RefusedRenameKept ==
    \E c \in ChannelIds, d \in DiscordIds :
        /\ pc = "recv"
        /\ queue # << >>
        /\ edits = << RenameEdit(c, d) >>
        /\ names[c] # renamed_channel_name
        /\ c \in DOMAIN channels


\* the ids of the subscriptions in S
IdsOf(S) == { r.id : r \in S }

\* C16: a pass in which a call fails leaves run at the select!, reading the
\* next frames; every pass whose listing succeeds rebuilds the local list
\* from the configured users alone, with ids only of subscriptions that exist
\* at Twitch after the pass; and a pass whose calls all succeed leaves exactly
\* the desired tuples at Twitch, whatever earlier passes left there.
PassFailureSelfHeals ==
    [][ PassStep =>
          /\ fpc' = "select"
          /\ calls'[1].op = "list"
          /\ calls'[1].ok =>
                /\ Len(event_sub_id') = Len(DesiredList(user_ids))
                /\ \A i \in 1..Len(event_sub_id') :
                      /\ event_sub_id'[i].user_id = DesiredList(user_ids)[i].user_id
                      /\ event_sub_id'[i].event_type = DesiredList(user_ids)[i].event_type
                      /\ event_sub_id'[i].event_id # None =>
                            unwrap(event_sub_id'[i].event_id) \in IdsOf(remote')
          /\ AllCallsOk(calls') => RemoteTuples(remote') = DesiredTuples
      ]_vars

\* C16 happens: the last pass succeeded and Twitch holds the desired tuples,
\* after an earlier pass that stopped part-way through its creations (the
\* subscriptions created so far are not a whole number of full passes).
HealedAfterPartialPass ==
    /\ fpc = "select"
    /\ frame.kind \in {"welcome", "reconnect"}
    /\ calls # << >>
    /\ AllCallsOk(calls)
    /\ RemoteTuples(remote) = DesiredTuples
    /\ (next_id - (Cardinality(RemoteUniverse) + 1)) % Cardinality(DesiredTuples) # 0


\* C17: `channels` is a map, one record per channel at most, and it changes
\* only when the consumer decides an edit: a rename is decided only for a
\* channel without a record and writes its record, a restore only for a
\* channel with a record and removes it; every decided edit changes the
\* record and is the edit then requested.  Renames and restores of a channel
\* therefore alternate, starting with a rename, and a channel has a record
\* exactly when the last edit decided for it is a rename.
RecordIffRenamed ==
    [][ /\ channels' # channels =>
              /\ pc = "decide" /\ pc' = "edit"
              /\ LET c == unwrap(cur.channel_id)
                 IN  IF cur.is_streaming
                     THEN /\ c \notin DOMAIN channels
                          /\ DOMAIN channels' = DOMAIN channels \cup {c}
                          /\ channels'[c].original_name = names[c]
                          /\ \A x \in DOMAIN channels : channels'[x] = channels[x]
                          /\ cur'.name = Some(renamed_channel_name)
                     ELSE /\ c \in DOMAIN channels
                          /\ DOMAIN channels' = DOMAIN channels \ {c}
                          /\ \A x \in DOMAIN channels' : channels'[x] = channels[x]
                          /\ cur'.name = Some(channels[c].original_name)
        /\ (pc = "decide" /\ pc' = "edit") =>
              /\ channels' # channels
              /\ cur'.channel_id = cur.channel_id
              /\ cur'.is_streaming = cur.is_streaming
        /\ (pc = "edit" /\ pc' # "edit") =>
              edits' = Append(edits, [ channel |-> unwrap(cur.channel_id),
                                       name |-> unwrap(cur.name),
                                       user |-> unwrap(cur.user),
                                       is_streaming |-> cur.is_streaming ])
        /\ (edits' # edits /\ edits' # << >>) => pc = "edit"
        /\ DOMAIN channels' \subseteq ChannelIds
      ]_vars

\* C17 happens: the last edit requested for a channel is its rename for one
\* user, its record is there, and another user known to be in it is offline.
RenamedAgain ==
    \E c \in ChannelIds, d \in DiscordIds, e \in DiscordIds :
        /\ d # e
        /\ pc = "recv"
        /\ c \in DOMAIN channels
        /\ edits = << RenameEdit(c, d) >>
        /\ users[e].twitch_is_streaming = Some(FALSE)
        /\ users[e].current_channel_id = Some(c)
        /\ users[d].current_channel_id = Some(c)


\* the consumer is between taking a message and being done with it
DecisionInProgress == pc \in {"find", "memo", "decide", "edit"}

\* C18: however many Ready events the gateway delivers, at most one task
\* ever runs twitch_event_handler: the first Ready takes the Receiver out of
\* Data and every later one finds None; so at most one decision is in
\* progress at any time, and none before the consumer exists.
SingleConsumer ==
    /\ consumers <= 1
    /\ consumers = (IF readys = 0 THEN 0 ELSE 1)
    /\ (receiver = None) = (readys > 0)
    /\ (consumers = 0) = (pc = "idle")
    /\ (IF DecisionInProgress THEN consumers ELSE 0) <= 1

\* C18 happens: a second Ready has been delivered while the consumer of the
\* first is in the middle of a decision.
SecondReadyDuringDecision ==
    /\ readys = 2
    /\ consumers = 1
    /\ pc = "decide"

\* the token could not be obtained at startup
TokenFailed == fpc = "auth_failed"

\* C20: once the token could not be obtained, nothing of the service runs
\* any more: the gateway handles no event and the consumer takes no step.
TokenFailureStopsService ==
    [][ TokenFailed =>
          /\ readys' = readys
          /\ pc' = pc
          /\ UNCHANGED << users, channels, names, edits, consumers >>
      ]_vars


\* the feed state SpecBoth starts from
StreamingOnLastConnection ==
    LET welcomed == AfterWelcomes(MaxConns)
        last     == SuccessfulPass(welcomed.remote, welcomed.next_id, MaxConns)
    IN  /\ fpc = "select"
        /\ conn = [ id |-> MaxConns, st |-> "migrating",
                    url |-> TWITCH_EVENTSUB_WEBSOCKET_URL ]
        /\ connect_url = ReconnectUrl
        /\ session_id = Some(MaxConns)
        /\ event_sub_id = last.list
        /\ remote = last.remote
        /\ next_id = last.next_id
        /\ calls = last.calls
        /\ pending = None
        /\ frame.kind = "reconnect"
        /\ delay = 0


\* run waits in sender.send for room on the channel
FeedWaitsInSend == fpc = "send"

\* C19 as stated: the websocket client is never waiting while the consumer
\* is inside an edit call, since what it would wait for can only come after
\* that call returns.
FeedNeverWaitsOnEdit == ~(FeedWaitsInSend /\ pc = "edit")

\* C19 as amended: the client starts to wait only in a send on a full
\* channel; whatever the consumer is doing, the client can read the next
\* frame when it is at the select!, and a waiting send can go on as soon as
\* the channel has room.
FeedWaitsOnlyOnFullQueue ==
    [][ /\ (~FeedWaitsInSend /\ FeedWaitsInSend') =>
              /\ Len(queue) = MaxQueue
              /\ queue' = queue
              /\ pending' # None
        /\ fpc = "select" => ENABLED ReadFrame
        /\ (FeedWaitsInSend /\ Len(queue) < MaxQueue) => ENABLED SendResume
      ]_vars

\* C19 (amended) happens: while the consumer is inside an edit call and the
\* channel has room, the client has read a keepalive and is at the select!.
KeepaliveDuringEdit ==
    /\ pc = "edit"
    /\ fpc = "select"
    /\ frame.kind = "keepalive"
    /\ Len(queue) < MaxQueue

(***************************************************************************)
(* Vocabulary of the properties of the decision of get_channel_new_name.   *)
(***************************************************************************)
\* a monitored user known to be in channel c is live
LiveOccupant(c) ==
    \E d \in DiscordIds :
        /\ users[d].current_channel_id = Some(c)
        /\ users[d].twitch_is_streaming = Some(TRUE)

\* the step is a decision that ends in an edit request
DecidesEdit == Decide /\ pc' = "edit"

\* C22: no decision aborts the consumer task, and the restore path runs only
\* for a channel that has a record.
RestoreOnlyWithRecord ==
    [][ Decide =>
          /\ pc' # "panicked"
          /\ (pc' = "edit" /\ ~cur.is_streaming) =>
                unwrap(cur.channel_id) \in DOMAIN channels ]_vars

\* C24: the known channel of a user whose presence has been observed changes
\* only in a VoiceStateUpdate for that user: the write of a discovery's
\* memoized result never replaces it.  (The flag is set by a VoiceStateUpdate
\* or by a discovery's write; after the latter alone the next discovery reads
\* back what was written, so its write changes the channel only when a
\* VoiceStateUpdate came between its read and its write.)
NoStaleOverwrite ==
    [][ \A u \in DiscordIds :
          ( /\ users[u].has_been_part_of_voice_state_event
            /\ users'[u].current_channel_id # users[u].current_channel_id )
          => \E c \in Option(ChannelIds) : VoiceStateUpdate(u, c) ]_vars

\* C28: in every quiescent state the known channel of every live user has a
\* record.
LiveRoomsHaveRecord ==
    Quiescent =>
        \A d \in DiscordIds :
            ( /\ users[d].twitch_is_streaming = Some(TRUE)
              /\ users[d].current_channel_id # None )
            => unwrap(users[d].current_channel_id) \in DOMAIN channels

(***************************************************************************)
(* C25. No restore edit is decided for a channel in which a user known to  *)
(* be there is live, and no edit at all is decided for a channel that has  *)
(* a record and a live occupant.  The state is the one the guards of       *)
(* get_channel_new_name read: the edit request follows from it.            *)
(***************************************************************************)
NoEditWhileLive ==
    [][ DecidesEdit =>
          /\ ~cur.is_streaming => ~LiveOccupant(unwrap(cur.channel_id))
          /\ ~( /\ LiveOccupant(unwrap(cur.channel_id))
                /\ unwrap(cur.channel_id) \in DOMAIN channels ) ]_vars

\* the consumer decides on an offline message for a user in a renamed channel
\* in which another user is live
OfflineBesideLiveOccupant ==
    /\ pc = "decide"
    /\ ~cur.is_streaming
    /\ unwrap(cur.channel_id) \in DOMAIN channels
    /\ OtherLiveOccupant(unwrap(cur.user), unwrap(cur.channel_id))

(***************************************************************************)
(* C26. Rename/restore round trip: a decided rename records the name the   *)
(* channel has in the cache at that moment and asks for the configured     *)
(* live name; a record keeps its name for as long as it exists; a decided  *)
(* restore asks for the name of the record and removes the record; the     *)
(* edit request carries the name that was decided.  So a restore asks for  *)
(* the live name only for a channel that was called so when it was         *)
(* renamed.                                                                *)
(***************************************************************************)
RenameRestoreRoundTrip ==
    [][ /\ (DecidesEdit /\ cur.is_streaming) =>
              /\ channels'[unwrap(cur.channel_id)].original_name
                    = names[unwrap(cur.channel_id)]
              /\ cur'.name = Some(renamed_channel_name)
        /\ (DecidesEdit /\ ~cur.is_streaming) =>
              /\ unwrap(cur.channel_id) \in DOMAIN channels
              /\ cur'.name = Some(channels[unwrap(cur.channel_id)].original_name)
              /\ unwrap(cur.channel_id) \notin DOMAIN channels'
        /\ \A c \in DOMAIN channels \cap DOMAIN channels' : channels'[c] = channels[c]
        /\ Edit =>
              /\ Len(edits') = Len(edits) + 1
              /\ edits'[Len(edits')].channel = unwrap(cur.channel_id)
              /\ edits'[Len(edits')].name = unwrap(cur.name) ]_vars

\* a channel that was renamed for a user has been restored for the same user
\* to another name than the live one, and its record is gone
RestoredToRecordedName ==
    /\ pc = "recv"
    /\ Len(edits) = 1
    /\ ~edits[1].is_streaming
    /\ edits[1].name # renamed_channel_name
    /\ names[edits[1].channel] = edits[1].name
    /\ edits[1].channel \notin DOMAIN channels
    /\ users[edits[1].user].twitch_is_streaming = Some(FALSE)

(***************************************************************************)
(* C29. Room discovery uses the store once presence was observed: for a    *)
(* user whose has_been_part_of_voice_state_event is true the discovery     *)
(* returns the stored current_channel_id, whatever the guilds' voice       *)
(* states hold.                                                            *)
(***************************************************************************)
DiscoveryUsesKnownChannel ==
    [][ (Find /\ users[unwrap(cur.user)].has_been_part_of_voice_state_event) =>
          cur'.channel_id = users[unwrap(cur.user)].current_channel_id ]_vars

\* a discovery has returned the stored channel of a user while the guild's
\* voice states hold another value for that user
KnownChannelDiffersFromScan ==
    /\ pc = "memo"
    /\ users[unwrap(cur.user)].has_been_part_of_voice_state_event
    /\ cur.channel_id = users[unwrap(cur.user)].current_channel_id
    /\ cur.channel_id # voice_states[unwrap(cur.user)]

(***************************************************************************)
(* C27. After a reconciliation pass whose calls all succeed, every         *)
(* subscription Twitch holds for a desired tuple is bound to the session   *)
(* of the payload the pass processed.                                      *)
(***************************************************************************)
BoundToCurrentSession ==
    [][ (PassStep /\ AllCallsOk(calls')) =>
          \A r \in remote' :
              << r.type_, r.condition.string >> \in DesiredTuples
                 => r.session = frame'.session.id ]_vars

\* a successful pass found a desired tuple at Twitch under an earlier session
\* and left it there under the session of the client
DesiredTupleOfEarlierSession ==
    /\ fpc = "select"
    /\ frame.kind \in {"welcome", "reconnect"}
    /\ AllCallsOk(calls)
    /\ \E i \in CallsOf(calls, "delete") :
          /\ << calls[i].type_, calls[i].user_id >> \in DesiredTuples
          /\ \E r \in remote :
                /\ << r.type_, r.condition.string >> = << calls[i].type_, calls[i].user_id >>
                /\ r.session = unwrap(session_id)
                /\ r.session # 0

(***************************************************************************)
(* C23. Deadlock freedom of the RwLock: the consumer's discovery and the   *)
(* gateway's handler never both wait for the lock with neither able to     *)
(* get it.                                                                 *)
(***************************************************************************)
\* the discovery awaits its second read guard
ConsumerAwaitsRead == pc = "scan"

\* the handler awaits the write guard
HandlerAwaitsWrite == gw.pc = "write"

NoLockDeadlock ==
    ~( /\ ConsumerAwaitsRead
       /\ HandlerAwaitsWrite
       /\ ~ENABLED FindScan
       /\ ~ENABLED VoiceStateUpdateWrite )

(***************************************************************************)
(* C21. A VoiceStateUpdate for a user that is not monitored is ignored:    *)
(* neither its dispatch nor its handler changes a user or a record of the  *)
(* store, and no edit is requested for it.                                 *)
(***************************************************************************)
\* the step is the handler of an event for a user outside the configuration,
\* from its dispatch to its end
UnmonitoredEventStep ==
    \/ \E c \in Option(ChannelIds) : VoiceStateUpdateReceived(UnmonitoredDiscordId, c)
    \/ VoiceStateUpdateWrite /\ gw.user_id = Some(UnmonitoredDiscordId)

UnmonitoredPresenceIgnored ==
    [][ UnmonitoredEventStep =>
          /\ UNCHANGED << users, channels >>
          /\ UNCHANGED << edits, names, pc, cur >> ]_vars

\* the handler has finished an event for an unmonitored user while a user was
\* live in a renamed channel
UnmonitoredEventHandled ==
    /\ gw.pc = "idle"
    /\ gw.user_id = Some(UnmonitoredDiscordId)
    /\ gw.channel_id # None
    /\ unwrap(gw.channel_id) \in DOMAIN channels
    /\ LiveOccupant(unwrap(gw.channel_id))

(***************************************************************************)
(* C30. The scan of the guilds is memoized.  As claimed: a discovery scans *)
(* for a user only if no scan was made for that user since the last        *)
(* VoiceStateUpdate handled for them (ScanAtMostOnce).  As the code has    *)
(* it: a discovery scans for a user only while the flag                    *)
(* has_been_part_of_voice_state_event is unset, no scan made for the user  *)
(* has found them in a channel; the flag, once set, stays set, and the     *)
(* handler of a VoiceStateUpdate for a monitored user sets it              *)
(* (ScanUntilFound).                                                       *)
(***************************************************************************)
ScanAtMostOnce ==
    [][ FindScan => scanned[unwrap(cur.user)] = "never" ]_vars

\* C30, as the code has it: a discovery scans for a user only while the flag
\* is unset and no scan has found the user; the flag stays set once set, and a
\* handled VoiceStateUpdate for the user sets it.
ScanUntilFound ==
    [][ /\ FindScan =>
              /\ scanned[unwrap(cur.user)] # "found"
              /\ ~users[unwrap(cur.user)].has_been_part_of_voice_state_event
        /\ \A u \in DiscordIds :
              users[u].has_been_part_of_voice_state_event
                 => users'[u].has_been_part_of_voice_state_event
        /\ \A u \in DiscordIds :
              (VoiceStateUpdateWrite /\ gw.user_id = Some(u))
                 => users'[u].has_been_part_of_voice_state_event ]_vars

\* with no VoiceStateUpdate delivered at all, a later discovery for a user the
\* scan had found has returned without scanning
SecondDiscoveryWithoutScan ==
    /\ pc = "memo"
    /\ gw.n = 0
    /\ guards = 0
    /\ scanned[unwrap(cur.user)] = "found"
    /\ users[unwrap(cur.user)].has_been_part_of_voice_state_event
    /\ cur.channel_id = users[unwrap(cur.user)].current_channel_id

(***************************************************************************)
(* C31. A welcome or reconnect payload: the client stores its session id;  *)
(* a reconnect URL in the payload becomes the connect target, a payload    *)
(* without one leaves the target as it is; nothing else changes the        *)
(* target, and every connection is opened to the target of the moment.     *)
(***************************************************************************)
ConnectTargetFollowsPayload ==
    [][ /\ PassStep =>
              /\ session_id' = Some(frame'.session.id)
              /\ frame'.session.reconnect_url # None =>
                    connect_url' = unwrap(frame'.session.reconnect_url)
              /\ frame'.session.reconnect_url = None => connect_url' = connect_url
        /\ ~PassStep => connect_url' = connect_url
        /\ conn'.id # conn.id => conn'.url = connect_url ]_vars

\* a connection was opened to the reconnect URL of an earlier payload, and the
\* welcome read on it, which carries no URL, has left the target there
ConnectedToReconnectUrl ==
    /\ conn.id > 1
    /\ conn.url = ReconnectUrl
    /\ conn.st = "open"
    /\ frame.kind = "welcome"
    /\ session_id = Some(conn.id)
    /\ connect_url = ReconnectUrl

(***************************************************************************)
(* C32. Every stream.online or stream.offline notification read puts one   *)
(* message of its kind and broadcaster on the channel, at once or when the *)
(* channel has room; a message leaves the channel only by being received,  *)
(* the head first; a notification of another type puts nothing on the      *)
(* channel and changes nothing of the client.                              *)
(***************************************************************************)
NotificationYieldsOneMessage ==
    [][ /\ (ReadFrame /\ StatusNotification(frame')) =>
              \/ queue' = Append(queue, MessageOf(frame')) /\ pending' = None
              \/ pending' = Some(MessageOf(frame')) /\ queue' = queue
        /\ SendResume =>
              /\ queue' = Append(queue, unwrap(pending))
              /\ pending' = None
        /\ Len(queue') < Len(queue) =>
              /\ pc' # "panicked"
              /\ queue' = Tail(queue)
        /\ (ReadFrame /\ frame'.kind = "notification" /\ ~StatusNotification(frame')) =>
              /\ UNCHANGED << queue, pending, session_id, connect_url, event_sub_id >>
              /\ UNCHANGED << remote, calls >>
              /\ fpc' = "select" ]_vars

(***************************************************************************)
(* C33. A VoiceStateUpdate for a monitored user sets the user's known      *)
(* channel to the channel of the event (none when the user left voice) and *)
(* the flag has_been_part_of_voice_state_event, and nothing else: no live  *)
(* flag, no field of another user, no record, and no edit is requested.    *)
(***************************************************************************)
PresenceUpdateSetsOnlyPresence ==
    [][ \A u \in DiscordIds, c \in Option(ChannelIds) :
          VoiceStateUpdate(u, c) =>
              /\ users'[u] = [users[u] EXCEPT
                                 !.current_channel_id = c,
                                 !.has_been_part_of_voice_state_event = TRUE]
              /\ \A d \in DiscordIds \ {u} : users'[d] = users[d]
              /\ DOMAIN users' = DOMAIN users
              /\ UNCHANGED << channels, edits, names, pc, cur, queue >> ]_vars

\* the gateway has moved a live user out of the channel renamed for them, to
\* a channel without a record: the flag, the record and the name stayed
LiveUserMovedRecordKept ==
    \E u \in DiscordIds, a \in ChannelIds, b \in ChannelIds :
        /\ a # b
        /\ pc = "recv"
        /\ users[u].twitch_is_streaming = Some(TRUE)
        /\ users[u].current_channel_id = Some(b)
        /\ voice_states[u] = Some(b)
        /\ a \in DOMAIN channels
        /\ b \notin DOMAIN channels
        /\ names[a] = renamed_channel_name
        /\ edits = << RenameEdit(a, u) >>

(***************************************************************************)
(* C34. When the consumer has finished a message for a monitored user,     *)
(* that user's live flag is the kind of the message (online: true,         *)
(* offline: false), whether or not a channel was found or an edit          *)
(* requested, and no other user's flag has changed: taking the message     *)
(* sets the flag of its user and of nobody else, and no later step of the  *)
(* handler, and no step of another task, writes a flag.                    *)
(***************************************************************************)
\* the user the configuration pairs with the broadcaster of message m
UserOf(m) == CHOOSE d \in DiscordIds : users[d].twitch_id = m.streamer_user_id

LiveFlagIsLastStatus ==
    [][ /\ (RecvStep /\ Monitored(Head(queue).streamer_user_id)) =>
              /\ users'[UserOf(Head(queue))].twitch_is_streaming
                    = Some(Head(queue).message_type = "TwitchStreamOnline")
              /\ \A d \in DiscordIds \ {UserOf(Head(queue))} :
                    users'[d].twitch_is_streaming = users[d].twitch_is_streaming
        /\ ~RecvStep =>
              \A d \in DiscordIds :
                  users'[d].twitch_is_streaming = users[d].twitch_is_streaming
        /\ (pc \in {"find", "memo", "decide", "edit"} /\ pc' = "recv") =>
              users'[unwrap(cur.user)].twitch_is_streaming = Some(cur.is_streaming) ]_vars

\* an online message was handled for a user found in no voice channel: no
\* edit, no record, the other user untouched, and the flag is set
OnlineHandledWithoutRoom ==
    \E d \in DiscordIds :
        /\ Quiescent
        /\ users[d].twitch_is_streaming = Some(TRUE)
        /\ users[d].current_channel_id = None
        /\ ~users[d].has_been_part_of_voice_state_event
        /\ edits = << >>
        /\ DOMAIN channels = {}
        /\ \A e \in DiscordIds \ {d} : users[e].twitch_is_streaming = None

(***************************************************************************)
(* C35. The websocket client does not stop because the consumer has: with  *)
(* the Receiver dropped, a stream.online or stream.offline notification,   *)
(* read now or held back by a full channel, does not make run return.      *)
(***************************************************************************)
FeedSurvivesConsumerEnd ==
    [][ ( /\ ReceiverDropped
          /\ \/ ReadFrame /\ StatusNotification(frame')
             \/ SendResume )
        => fpc' # "returned" ]_vars

(***************************************************************************)
(* C36. The senders of the channel.  As claimed: a message is put on the   *)
(* channel only by the websocket client, for a notification it read        *)
(* (SingleProducer).  As the code has it: a message is put on the channel  *)
(* either by the websocket client for a notification it read, or by the    *)
(* command update_streaming_status, for a registered user and with the     *)
(* kind given to the command (TwoProducers).                               *)
(***************************************************************************)
\* the step puts a message on the channel
Enqueues == Len(queue') > Len(queue)

\* the step is the websocket client sending the message of a notification
FeedSends ==
    \/ ReadFrame /\ StatusNotification(frame') /\ queue' = Append(queue, MessageOf(frame'))
    \/ SendResume /\ queue' = Append(queue, unwrap(pending))

\* C36, as claimed: only the websocket client puts a message on the channel.
SingleProducer == [][ Enqueues => FeedSends ]_vars

\* C36, as the code has it: the websocket client and the command are the two
\* senders, and the command sends only for a registered user.
TwoProducers ==
    [][ Enqueues =>
          \/ FeedSends
          \/ \E user \in DiscordIds, is_streaming \in BOOLEAN :
                /\ queue' = Append(queue, CommandMessage(user, is_streaming))
                /\ UNCHANGED << fpc, pending, frame, conn, pc >>
                /\ UNCHANGED << users, channels >> ]_vars

\* a message is on the channel before the client has read any notification
\* on its connection, and the client holds none back: the command sent it
CommandMessageQueued ==
    /\ frame.kind = "reconnect"
    /\ fpc = "select"
    /\ pending = None
    /\ queue # << >>
    /\ Monitored(Head(queue).streamer_user_id)

(***************************************************************************)
(* C37. Reading a keepalive or a revocation frame changes nothing the      *)
(* client keeps (session id, connect URL, local list of subscriptions),    *)
(* puts nothing on the channel and holds nothing back for it, makes no     *)
(* call to the subscription API, and leaves the client at the select of    *)
(* its loop on the same connection.                                        *)
(***************************************************************************)
KeepaliveRevocationNoOp ==
    [][ (ReadFrame /\ frame'.kind \in {"keepalive", "revocation"}) =>
           /\ UNCHANGED << session_id, connect_url, event_sub_id >>
           /\ UNCHANGED << queue, pending >>
           /\ UNCHANGED << calls, remote, next_id >>
           /\ fpc' = "select"
           /\ conn' = conn ]_vars

\* a revocation was read by a client that has a session and subscriptions
RevocationReadWithSubscriptions ==
    /\ frame.kind = "revocation"
    /\ fpc = "select"
    /\ session_id = Some(conn.id)
    /\ event_sub_id # << >>
    /\ remote # {}

(***************************************************************************)
(* C38. In the calls of one reconciliation pass the list call comes first, *)
(* no delete call comes after a create call, and a call that failed is the *)
(* last call of the pass.                                                  *)
(***************************************************************************)
DeletesThenCreatesFailFast ==
    /\ calls # << >> => calls[1].op = "list"
    /\ \A i \in 1..Len(calls) : \A j \in 1..Len(calls) :
          (calls[i].op = "create" /\ calls[j].op = "delete") => j < i
    /\ \A i \in 1..Len(calls) : ~calls[i].ok => i = Len(calls)

\* a pass deleted a subscription, created one, and ended at a create call that
\* failed, with entries of the list left without a subscription
PassEndedAtFailedCreate ==
    /\ CallsOf(calls, "delete") # {}
    /\ \E i \in CallsOf(calls, "create") : calls[i].ok
    /\ calls[Len(calls)].op = "create"
    /\ ~calls[Len(calls)].ok
    /\ Cardinality({ i \in 1..Len(event_sub_id) : event_sub_id[i].event_id = None }) > 1

====
